---- MODULE Spec2Model ----
(***************************************************************************)
(* A model of the JustPaste backend (src/main.py): the /download_get       *)
(* handler with its API key check, the retry loop and artifact location of *)
(* download_single, the history table and the /history route.              *)
(*                                                                         *)
(* Text is modelled as a sequence of one-character strings, so that        *)
(* startswith, endswith, lower and split act on characters as they do in   *)
(* the code.  Each in-flight request occupies a slot and advances through  *)
(* the handler one step at a time, so that requests interleave.            *)
(***************************************************************************)
EXTENDS Integers, Sequences, FiniteSets, TLC

(* ------------------------------ bounds -------------------------------- *)

\* Rows in the history table beyond which no further request is accepted.
MaxRecords == 2
\* Files one engine invocation may leave in the scratch directory.
MaxFiles == 1

\* Concurrent request slots (worker threads).
Slots == {"w1", "w2"}
\* Names tempfile.mkdtemp may generate.
DirNames == {"tmpA", "tmpB"}

(* ------------------------------- text ---------------------------------- *)

\* Python's None, as a text value that no string equals.
None == <<"<None>">>

Str(s) == IF s = None THEN <<"N", "o", "n", "e">> ELSE s

Bearer == <<"B", "e", "a", "r", "e", "r", " ">>

Keys == {<<"k">>, None}

Mp4 == <<"m", "p", "4">>
Mp3 == <<"m", "p", "3">>
Wav == <<"w", "a", "v">>
UpperMp3 == <<"M", "P", "3">>

Url == <<"u">>
Best == <<"b", "e", "s", "t">>
Q720 == <<"7", "2", "0">>

\* 'dl.%(ext)s', the file name of the output template (main.py line 121).
TplName == <<"d", "l", ".", "%", "(", "e", "x", "t", ")", "s">>

\* File names the engine may leave behind.
FileNames ==
    { <<"d", "l", ".", "m", "p", "3">>,
      <<"d", "l", ".", "M", "P", "4">>,
      <<"d", "l", ".", "p", "a", "r", "t">>,
      <<"d", "l", "m", "p", "3">>,
      <<"x", ".", "m", "p", "4">> }

LowerChar(c) ==
    CASE c = "M" -> "m"
      [] c = "P" -> "p"
      [] c = "D" -> "d"
      [] c = "L" -> "l"
      [] OTHER -> c

\* str.lower
Lower(s) == [i \in 1..Len(s) |-> LowerChar(s[i])]

\* str.startswith
StartsWith(s, p) == Len(p) <= Len(s) /\ SubSeq(s, 1, Len(p)) = p

\* str.endswith
EndsWith(s, p) ==
    Len(p) <= Len(s) /\ SubSeq(s, Len(s) - Len(p) + 1, Len(s)) = p

\* s.split('.')[0]: the text before the first dot, all of s when it has none.
RECURSIVE SplitDotFirst(_)
SplitDotFirst(s) ==
    IF s = <<>> \/ Head(s) = "." THEN <<>>
    ELSE <<Head(s)>> \o SplitDotFirst(Tail(s))

\* Python truthiness of an optional string: None and '' are falsy.
Truthy(s) == s # None /\ s # <<>>

(* --------------------------- program constants ------------------------- *)

MAX_DOWNLOAD_RETRIES == 2

(* ------------------------------- state --------------------------------- *)

VARIABLES
    apiKey,     \* API_KEY, read from the environment at start-up
    req,        \* per slot: the request being handled and where its handler is
    fs,         \* the temporary directories and their immediate entries
    history     \* the rows of the DownloadHistory table, in insertion order

vars == <<apiKey, req, fs, history>>

NoDir == "none"
NoPath == <<NoDir, <<>>>>

\* An exception: its class and what its message carries.
Exc(type, fmt, attempt) == [type |-> type, fmt |-> fmt, attempt |-> attempt]
NoExc == Exc("none", <<>>, 0)

\* A response: the status, the JSON error ("" when none), the exception whose
\* str() is the error message of a 500, the file sent with a 200 of
\* /download_get, and the ids of the rows listed by a 200 of /history.
Resp(status, error, exc, file, rows) ==
    [status |-> status, error |-> error, exc |-> exc, file |-> file,
     rows |-> rows]
NoResp == Resp(0, "", NoExc, NoPath, <<>>)

IdleReq ==
    [ pc |-> "idle", route |-> "", header |-> None, url |-> None, fmt |-> None, quality |-> None,
      tmp |-> NoDir, tpl |-> NoPath, attempt |-> 0,
      invocations |-> 0, warnings |-> 0, scans |-> 0,
      state |-> "Idle", path |-> NoPath, exc |-> NoExc,
      rec |-> 0, rmtree |-> "none", resp |-> NoResp ]

(* ----------------------------- pure helpers ---------------------------- *)

\* request.headers.get('Authorization', ''): an absent header reads as ''.
HeaderGet(h) == IF h = None THEN <<>> ELSE h

\* request.args.get(name, default): an absent parameter reads as the default.
ArgsGet(v, default) == IF v = None THEN default ELSE v

\* The key check gone wrong: any header of the Bearer scheme is let through.
AuthorizedByScheme(auth, key) == StartsWith(auth, Bearer)

\* require_api_key: the header must be exactly f'Bearer {API_KEY}'.
Authorized(auth, key) == auth = Bearer \o Str(key)

\* download_get's parameter check: both url and format must be truthy.
MissingArgs(url, fmt) == ~Truthy(url) \/ ~Truthy(fmt)

\* The option resolution gone wrong: the elif taken for an else, so every
\* format other than 'mp4' gets the audio options.
GetYdlOptsNoElse(fmt, quality, tpl) ==
    [ raises |-> FALSE,
      format |-> IF fmt = Mp4 THEN "bestvideo+bestaudio/best"
                 ELSE "bestaudio/best",
      outtmpl |-> tpl,
      post |-> IF fmt = Mp4 THEN "merge mp4" ELSE "FFmpegExtractAudio mp3 192",
      retries |-> MAX_DOWNLOAD_RETRIES ]

\* get_ydl_opts: the engine options of a format, or the ValueError it raises.
GetYdlOpts(fmt, quality, tpl) ==
    IF fmt = Mp4 THEN
        [ raises |-> FALSE, format |-> "bestvideo+bestaudio/best",
          outtmpl |-> tpl, post |-> "merge mp4",
          retries |-> MAX_DOWNLOAD_RETRIES ]
    ELSE IF fmt = Mp3 THEN
        [ raises |-> FALSE, format |-> "bestaudio/best",
          outtmpl |-> tpl, post |-> "FFmpegExtractAudio mp3 192",
          retries |-> MAX_DOWNLOAD_RETRIES ]
    ELSE
        [ raises |-> TRUE, format |-> "", outtmpl |-> tpl, post |-> "",
          retries |-> 0 ]

\* os.path.join(tmp, name), os.path.dirname and os.path.basename.
PathJoin(d, name) == <<d, name>>
Dirname(p) == p[1]
Basename(p) == p[2]

\* The prefix download_single looks for: basename(tpl).split('.')[0].
Prefix(tpl) == SplitDotFirst(Basename(tpl))

\* The test gone wrong: the entry's name is not lowered before the comparison.
MatchesCaseSensitive(fname, prefix, fmt) ==
    StartsWith(fname, prefix) /\ EndsWith(fname, fmt)

\* The test of the location loop (main.py line 97).
Matches(fname, prefix, fmt) ==
    StartsWith(fname, prefix) /\ EndsWith(Lower(fname), fmt)

\* The location loop: the first entry of the listing that passes the test,
\* or None when the loop runs off the end.
RECURSIVE FirstMatch(_, _, _)
FirstMatch(listing, prefix, fmt) ==
    IF listing = <<>> THEN None
    ELSE IF Matches(Head(listing), prefix, fmt) THEN Head(listing)
    ELSE FirstMatch(Tail(listing), prefix, fmt)

\* os.listdir: the entries of a directory in an order the file system picks.
Listings(files) ==
    { l \in [1..Cardinality(files) -> files] :
        \A i, j \in 1..Cardinality(files) : i # j => l[i] # l[j] }

\* The test gone wrong by one: no attempt is ever the last.
IsLastAttemptOffByOne(attempt) == attempt = MAX_DOWNLOAD_RETRIES

\* The retry loop's test for the last permitted attempt (main.py line 90).
IsLastAttempt(attempt) == attempt = MAX_DOWNLOAD_RETRIES - 1

\* The break forgotten: the loop runs the engine again after a success.
AfterSuccessNoBreak(attempt) == "attempt"

\* Where the retry loop goes after a successful attempt: break (line 87).
AfterSuccess(attempt) == "locate"

\* Where the retry loop goes after a failed attempt that is not re-raised:
\* the next iteration of range(MAX_DOWNLOAD_RETRIES), or past the loop.
AfterFailure(attempt) ==
    IF attempt + 1 < MAX_DOWNLOAD_RETRIES THEN "attempt" ELSE "locate"

\* What one engine invocation may leave in the scratch directory.
EngineOutputs == { S \in SUBSET FileNames : Cardinality(S) <= MaxFiles }

\* mkdtemp gone wrong: a name is returned whether or not it is taken.
AnyDir(fsys) == DirNames

\* tempfile.mkdtemp: the names it may return, none of which exists yet.
FreshDirs(fsys) == { d \in DirNames : ~fsys[d].exists }

\* The removal gone wrong: nothing is removed.
RmtreeNoop(fsys, d, ok) == fsys

\* shutil.rmtree(tmp, ignore_errors=True): the directory is gone when the
\* removal succeeds; when it fails the error is swallowed and the directory
\* is still there.  The entries left in a directory whose removal failed are
\* not tracked: no request ever reads a directory after its owner finished.
Rmtree(fsys, d, ok) ==
    IF ok THEN [fsys EXCEPT ![d] = [exists |-> FALSE, files |-> {}]]
    ELSE [fsys EXCEPT ![d] = [exists |-> TRUE, files |-> {}]]

\* The row gone wrong: the quality column is left at the default.
NewRecordDefaultQuality(id, url, fmt, quality, now) ==
    [ id |-> id, url |-> url, file_format |-> fmt, quality |-> Best,
      timestamp |-> now ]

\* The row DownloadHistory(url=..., file_format=..., quality=...) becomes:
\* the store assigns the id, the timestamp defaults to the clock's reading
\* (a logical clock that ticks at every insertion).
NewRecord(id, url, fmt, quality, now) ==
    [ id |-> id, url |-> url, file_format |-> fmt, quality |-> quality,
      timestamp |-> now ]

\* The commit gone wrong: the new row replaces the table's rows.
DbCommitReplace(rows, row) == <<row>>

\* db.session.add + commit: the row is appended to the table.
DbCommit(rows, row) == Append(rows, row)

\* The except clause of download_get: any exception raised in the try block
\* becomes a 500 carrying str(e), and the handler goes on to the finally block.
Caught(q, e) ==
    [q EXCEPT !.exc = e, !.resp = Resp(500, "exception", e, NoPath, <<>>),
              !.pc = "finally"]

(* ------------------------------ inputs --------------------------------- *)

\* Authorization headers a client may send (None: no header).
Headers == { None, <<"k">>, Bearer \o <<"k">>, Bearer \o Str(None) }
\* Query parameters a client may send (None: parameter absent).
UrlArgs == { None, <<>>, Url }
FormatArgs == { None, <<>>, Mp4, Mp3, Wav, UpperMp3 }
QualityArgs == { None, Q720 }

(* ------------------------------- Init ---------------------------------- *)

Init ==
    /\ apiKey \in Keys
    /\ req = [r \in Slots |-> IdleReq]
    /\ fs = [d \in DirNames |-> [exists |-> FALSE, files |-> {}]]
    /\ history = <<>>

(* ------------------------------ actions -------------------------------- *)

\* A worker is free when it handles no request; the response of its last
\* request stays on record until the next one arrives.
Free(r) == req[r].pc \in {"idle", "done"}

\* GET /download_get, up to the retry loop, with the header drawn from H and
\* the parameters from U, F and Q: require_api_key (main.py lines 49-56), the
\* parameter check (lines 113-117), mkdtemp and the template (lines 119-121),
\* and download_single's option resolution (line 82), whose ValueError is
\* caught at line 131.
DownloadGet(r, H, U, F, Q) ==
    /\ Free(r)
    /\ Len(history) < MaxRecords
    /\ \E h \in H :
         LET got == [IdleReq EXCEPT !.route = "download_get", !.header = h]
         IN  IF ~Authorized(HeaderGet(h), apiKey) THEN
                 /\ req' = [req EXCEPT ![r] =
                        [got EXCEPT !.pc = "done",
                            !.resp = Resp(401, "Unauthorized", NoExc, NoPath, <<>>)]]
                 /\ UNCHANGED fs
             ELSE
                 \E u \in U, f \in F, q \in Q :
                   LET url == ArgsGet(u, None)
                       fmt == ArgsGet(f, None)
                       quality == ArgsGet(q, Best)
                       args == [got EXCEPT !.url = url, !.fmt = fmt,
                                           !.quality = quality]
                   IN  IF MissingArgs(url, fmt) THEN
                           /\ req' = [req EXCEPT ![r] =
                                  [args EXCEPT !.pc = "done",
                                      !.resp = Resp(400, "Missing url or format",
                                                    NoExc, NoPath, <<>>)]]
                           /\ UNCHANGED fs
                       ELSE
                           \E d \in FreshDirs(fs) :
                             LET tpl == PathJoin(d, TplName)
                                 opts == GetYdlOpts(fmt, quality, tpl)
                                 made == [args EXCEPT !.tmp = d, !.tpl = tpl]
                             IN  /\ fs' = [fs EXCEPT ![d] =
                                              [exists |-> TRUE, files |-> {}]]
                                 /\ req' = [req EXCEPT ![r] =
                                        IF opts.raises THEN
                                            Caught([made EXCEPT
                                                       !.state = "Unsupported"],
                                                   Exc("ValueError", fmt, 0))
                                        ELSE [made EXCEPT !.pc = "attempt",
                                                          !.state = "Attempting"]]
    /\ UNCHANGED <<apiKey, history>>

\* One iteration of the retry loop (main.py lines 83-91): the engine runs
\* once, leaves one of `outs` in the template's directory, and succeeds or
\* fails.
Engine(r, outs) ==
    /\ req[r].pc = "attempt"
    /\ \E ok \in BOOLEAN, out \in outs :
         LET q == [req[r] EXCEPT !.invocations = @ + 1]
             d == Dirname(q.tpl)
         IN  /\ fs' = [fs EXCEPT ![d].files = @ \cup out]
             /\ req' = [req EXCEPT ![r] =
                    IF ok THEN
                        [q EXCEPT !.pc = AfterSuccess(q.attempt),
                                  !.state = "Succeeded"]
                    ELSE
                        LET w == [q EXCEPT !.warnings = @ + 1]
                        IN  IF IsLastAttempt(q.attempt) THEN
                                Caught([w EXCEPT !.state = "Failed"],
                                       Exc("DownloadError", q.fmt, q.attempt + 1))
                            ELSE [w EXCEPT !.attempt = @ + 1,
                                           !.pc = AfterFailure(q.attempt)]]
    /\ UNCHANGED <<apiKey, history>>

\* The artifact location (main.py lines 93-99): one os.listdir of the
\* template's directory, the first matching entry is returned.
Locate(r) ==
    /\ req[r].pc = "locate"
    /\ LET q == [req[r] EXCEPT !.scans = @ + 1]
           d == Dirname(q.tpl)
           prefix == Prefix(q.tpl)
       IN  \E listing \in Listings(fs[d].files) :
             LET fname == FirstMatch(listing, prefix, q.fmt)
             IN  req' = [req EXCEPT ![r] =
                     IF fname # None THEN
                         [q EXCEPT !.path = PathJoin(d, fname),
                                   !.state = "Located", !.pc = "commit"]
                     ELSE
                         Caught([q EXCEPT !.state = "NotFound"],
                                Exc("FileNotFoundError", q.fmt, 0))]
    /\ UNCHANGED <<apiKey, fs, history>>

\* db.session.add(DownloadHistory(...)); db.session.commit()
\* (main.py lines 124-126).  A commit the store refuses raises, adds no row.
Commit(r) ==
    /\ req[r].pc = "commit"
    /\ LET q == req[r]
           id == Len(history) + 1
       IN  \/ /\ history' = DbCommit(history,
                                NewRecord(id, q.url, q.fmt, q.quality, id))
              /\ req' = [req EXCEPT ![r] = [q EXCEPT !.rec = id, !.pc = "send"]]
           \/ /\ req' = [req EXCEPT ![r] =
                     Caught(q, Exc("SQLAlchemyError", q.fmt, 0))]
              /\ UNCHANGED history
    /\ UNCHANGED <<apiKey, fs>>

\* return send_file(path, ...) (main.py lines 128-130); it raises when the
\* file cannot be opened.
SendFile(r) ==
    /\ req[r].pc = "send"
    /\ LET q == req[r]
       IN  \/ req' = [req EXCEPT ![r] =
                  [q EXCEPT !.resp = Resp(200, "", NoExc, q.path, <<>>),
                            !.pc = "finally"]]
           \/ req' = [req EXCEPT ![r] = Caught(q, Exc("OSError", q.fmt, 0))]
    /\ UNCHANGED <<apiKey, fs, history>>

\* finally: shutil.rmtree(tmp, ignore_errors=True) (main.py lines 134-135);
\* the handler then returns the response already chosen.
Finally(r) ==
    /\ req[r].pc = "finally"
    /\ LET q == req[r]
       IN  \E ok \in BOOLEAN :
             /\ fs' = Rmtree(fs, q.tmp, ok)
             /\ req' = [req EXCEPT ![r] =
                    [q EXCEPT !.rmtree = IF ok THEN "removed" ELSE "failed",
                              !.pc = "done"]]
    /\ UNCHANGED <<apiKey, history>>

\* The ids of the rows in the order of ORDER BY timestamp DESC.
RECURSIVE OrderByTimestampDesc(_)
OrderByTimestampDesc(rows) ==
    IF rows = <<>> THEN <<>>
    ELSE LET m == CHOOSE i \in 1..Len(rows) :
                      \A j \in 1..Len(rows) :
                          rows[i].timestamp >= rows[j].timestamp
             others == [k \in 1..(Len(rows) - 1) |->
                           IF k < m THEN rows[k] ELSE rows[k + 1]]
         IN  <<rows[m].id>> \o OrderByTimestampDesc(others)

\* GET /history with the header drawn from H (main.py lines 137-142): behind
\* the same API key check, it reads the table and writes nothing.
HistoryGet(r, H) ==
    /\ Free(r)
    /\ \E h \in H :
       LET got == [IdleReq EXCEPT !.route = "history", !.header = h,
                                  !.pc = "done"]
       IN  req' = [req EXCEPT ![r] =
               IF ~Authorized(HeaderGet(h), apiKey) THEN
                   [got EXCEPT !.resp =
                        Resp(401, "Unauthorized", NoExc, NoPath, <<>>)]
               ELSE
                   [got EXCEPT !.resp =
                        Resp(200, "", NoExc, NoPath,
                             OrderByTimestampDesc(history))]]
    /\ UNCHANGED <<apiKey, fs, history>>

(* ---------------- one worker, every kind of request -------------------- *)

Download(r) == DownloadGet(r, Headers, UrlArgs, FormatArgs, QualityArgs)

Attempt(r) == Engine(r, EngineOutputs)

History(r) == HistoryGet(r, Headers)

Worker == "w1"

Next ==
    \/ Download(Worker)
    \/ Attempt(Worker)
    \/ Locate(Worker)
    \/ Commit(Worker)
    \/ SendFile(Worker)
    \/ Finally(Worker)
    \/ History(Worker)

Spec == Init /\ [][Next]_vars

(* ---------------- two workers, well-formed requests -------------------- *)

\* The requests of the concurrent runs: authorized and complete, for a
\* supported or an unsupported format.
ConcDownload(r) ==
    DownloadGet(r, {Bearer \o Str(apiKey)}, {Url}, {Mp3, Wav}, {None})

\* The engine of the concurrent runs leaves the expected file or a partial
\* download, under the same name in every request's directory.
ConcFiles == { <<"d", "l", ".", "m", "p", "3">>,
               <<"d", "l", ".", "p", "a", "r", "t">> }

ConcAttempt(r) == Engine(r, { S \in EngineOutputs : S \subseteq ConcFiles })

ConcNext ==
    \E r \in Slots :
        \/ ConcDownload(r)
        \/ ConcAttempt(r)
        \/ Locate(r)
        \/ Commit(r)
        \/ SendFile(r)
        \/ Finally(r)

ConcSpec == Init /\ [][ConcNext]_vars

(* ------------------------------- claims -------------------------------- *)

\* The requests that reached download_single: authorized, with url and format.
InCore(r) == req[r].route = "download_get" /\ req[r].tmp # NoDir

\* The handler still holds its scratch directory (rmtree has not run yet).
Holding(r) == req[r].pc \in {"attempt", "locate", "commit", "send", "finally"}

Supported == {Mp4, Mp3}

\* C1: a request whose format is neither 'mp4' nor 'mp3' fails with the
\* unsupported-format error (a ValueError naming the format, answered with a
\* 500) before anything else happens: the engine is never invoked, the
\* scratch directory is never scanned and no path is returned.
C1_UnsupportedFailsFirst ==
    \A r \in Slots :
        (InCore(r) /\ req[r].fmt \notin Supported) =>
            /\ req[r].state = "Unsupported"
            /\ req[r].exc = Exc("ValueError", req[r].fmt, 0)
            /\ req[r].resp.status = 500
            /\ req[r].invocations = 0
            /\ req[r].scans = 0
            /\ req[r].path = NoPath
            /\ req[r].pc \in {"finally", "done"}

C1_Witness ==
    \E r \in Slots :
        /\ InCore(r) /\ req[r].fmt = Wav
        /\ req[r].pc = "done" /\ req[r].state = "Unsupported"

\* C2: when the engine fails on every attempt, download_single invokes it
\* exactly MAX_DOWNLOAD_RETRIES times, one attempt after the other, and ends
\* in Failed with the last attempt's error propagated; the location step is
\* never reached.
C2_ExhaustionFails ==
    \A r \in Slots :
        /\ req[r].invocations <= MAX_DOWNLOAD_RETRIES
        /\ req[r].pc = "attempt" =>
               /\ req[r].attempt = req[r].invocations
               /\ req[r].attempt < MAX_DOWNLOAD_RETRIES
        /\ (req[r].invocations > 0 /\ req[r].warnings = req[r].invocations) =>
               IF req[r].invocations < MAX_DOWNLOAD_RETRIES
               THEN req[r].pc = "attempt"
               ELSE /\ req[r].state = "Failed"
                    /\ req[r].exc = Exc("DownloadError", req[r].fmt,
                                        MAX_DOWNLOAD_RETRIES)
                    /\ req[r].resp.status = 500
                    /\ req[r].scans = 0
                    /\ req[r].path = NoPath
                    /\ req[r].pc \in {"finally", "done"}
        /\ req[r].state = "Failed" =>
               /\ req[r].invocations = MAX_DOWNLOAD_RETRIES
               /\ req[r].warnings = MAX_DOWNLOAD_RETRIES

C2_Witness ==
    \E r \in Slots :
        /\ req[r].state = "Failed" /\ req[r].pc = "done"
        /\ req[r].invocations = 2 /\ req[r].exc.attempt = 2

\* An attempt of r has succeeded.
Succeeded(r) == req[r].state \in {"Succeeded", "Located", "NotFound"}

\* C3: the retry loop stops at the first successful attempt: once an attempt
\* has succeeded the engine is not invoked again, and if the success was
\* attempt k then k invocations were made and k-1 warnings logged.
C3_StopsAtFirstSuccess ==
    \A r \in Slots :
        /\ Succeeded(r) =>
               /\ req[r].pc # "attempt"
               /\ req[r].invocations = req[r].attempt + 1
               /\ req[r].invocations <= MAX_DOWNLOAD_RETRIES
               /\ req[r].warnings = req[r].invocations - 1
        /\ (Succeeded(r) /\ req[r].warnings = 0) => req[r].invocations = 1

C3_Witness ==
    \E r \in Slots :
        /\ req[r].state = "Located" /\ req[r].pc = "done"
        /\ req[r].invocations = 2 /\ req[r].warnings = 1

\* An entry named f passes the location test for the format fmt.
PassesTest(f, fmt) == StartsWith(f, <<"d", "l">>) /\ EndsWith(Lower(f), fmt)

SomeEntryMatches(r) ==
    \E f \in fs[req[r].tmp].files : PassesTest(f, req[r].fmt)

C5_AsStated ==
    \A r \in Slots :
        (InCore(r) /\ req[r].pc = "done") => ~fs[req[r].tmp].exists

\* C5, amended: download_get attempts the removal of its scratch directory
\* on every exit path; when the handler finishes the directory no longer
\* exists unless that removal itself failed, and the removal, failed or not,
\* leaves the response as it was.
C5_RemovalOnEveryExit ==
    /\ [](\A r \in Slots :
            (InCore(r) /\ req[r].pc = "done") => req[r].rmtree # "none")
    /\ [][\A r \in Slots :
            (req[r].pc = "finally" /\ req'[r].pc = "done") =>
                /\ req'[r].resp = req[r].resp
                /\ req'[r].rmtree \in {"removed", "failed"}
                /\ req'[r].rmtree = "removed" => ~fs'[req[r].tmp].exists
                /\ \A d \in DirNames \ {req[r].tmp} : fs'[d] = fs[d]]_vars

C5_Witness ==
    \E r \in Slots :
        /\ req[r].pc = "done" /\ req[r].rmtree = "failed"
        /\ req[r].resp.status = 200 /\ fs[req[r].tmp].exists

\* The row the handler of r writes: its url, format and quality.
RowOf(r, row) ==
    /\ row.url = req[r].url
    /\ row.file_format = req[r].fmt
    /\ row.quality = req[r].quality

Recorded(r) == \E i \in 1..Len(history) : RowOf(r, history[i])

\* C6 as stated: after download_get has handled a request carrying a url and
\* a format, the history holds a record of it, whatever the outcome.
C6_AsStated ==
    \A r \in Slots :
        (req[r].route = "download_get" /\ req[r].pc = "done"
            /\ Truthy(req[r].url) /\ Truthy(req[r].fmt)) => Recorded(r)

\* C6, amended: after download_get has handled a request whose artifact was
\* located and whose history write did not fail, the history holds a record
\* with that request's url, format and quality (the quality defaulting to
\* 'best'), whether or not the file send then succeeds.
C6_RecordedWhenLocated ==
    \A r \in Slots :
        (req[r].state = "Located" /\ req[r].pc \in {"send", "finally", "done"}
            /\ req[r].exc.type # "SQLAlchemyError") =>
                /\ req[r].rec \in 1..Len(history)
                /\ RowOf(r, history[req[r].rec])
                /\ req[r].quality # None

C6_Witness ==
    \E r \in Slots :
        /\ req[r].pc = "done" /\ req[r].resp.status = 200
        /\ req[r].quality = Q720 /\ req[r].fmt = Mp4
        /\ req[r].rec = 2 /\ RowOf(r, history[2])

\* C7: a path download_single returns names an entry of the scratch
\* directory that starts with 'dl' and ends, case-insensitively, with the
\* dot followed by the format.
C7_ReturnedPathHasExtension ==
    \A r \in Slots :
        req[r].path # NoPath =>
            /\ Dirname(req[r].path) = req[r].tmp
            /\ Holding(r) => Basename(req[r].path) \in fs[req[r].tmp].files
            /\ StartsWith(Basename(req[r].path), <<"d", "l">>)
            /\ EndsWith(Lower(Basename(req[r].path)), <<".">> \o req[r].fmt)

\* The header h carries the expected bearer token.
Expected(h) == HeaderGet(h) = Bearer \o Str(apiKey)

\* The request record q never reached the core.
Rejected(q) ==
    /\ q.pc = "done" /\ q.tmp = NoDir
    /\ q.invocations = 0 /\ q.scans = 0 /\ q.rec = 0

\* C8: a download request without the expected bearer token gets 401, an
\* authorized one without url or format gets 400; in both cases no scratch
\* directory is created, the engine is not invoked and no record is added.
C8_RejectedBeforeCore ==
    /\ [](\A r \in Slots :
            (req[r].route = "download_get") =>
                /\ ~Expected(req[r].header) =>
                       req[r].resp.status = 401 /\ Rejected(req[r])
                /\ (Expected(req[r].header)
                        /\ (~Truthy(req[r].url) \/ ~Truthy(req[r].fmt))) =>
                       req[r].resp.status = 400 /\ Rejected(req[r])
                /\ req[r].resp.status \in {400, 401} =>
                       ~Expected(req[r].header) \/ ~Truthy(req[r].url)
                           \/ ~Truthy(req[r].fmt))
    /\ [][\A r \in Slots :
            (req'[r] # req[r] /\ req'[r].route = "download_get"
                /\ req'[r].resp.status \in {400, 401}) =>
                    fs' = fs /\ history' = history]_vars

C8_Witness ==
    \E r \in Slots :
        /\ req[r].route = "download_get" /\ req[r].resp.status = 400
        /\ req[r].url = Url /\ req[r].fmt = None
        /\ Len(history) = 1

\* C10: the history is append-only and holds a record of a request only if
\* an engine attempt of it succeeded and its artifact was located: a request
\* ending in UnsupportedFormat, exhaustion or ArtifactNotFound adds none, no
\* step changes or removes a row, and a committed row stays when the file
\* send fails and the caller gets a 500.
C10_HistoryAppendOnly ==
    /\ [](\A r \in Slots :
            /\ req[r].state \in {"Idle", "Unsupported", "Attempting",
                                 "Succeeded", "Failed", "NotFound"} =>
                   req[r].rec = 0
            /\ req[r].rec # 0 =>
                   /\ req[r].state = "Located"
                   /\ req[r].rec \in 1..Len(history)
                   /\ RowOf(r, history[req[r].rec])
                   /\ history[req[r].rec].id = req[r].rec)
    /\ [][\/ history' = history
          \/ \E r \in Slots :
                /\ req[r].pc = "commit" /\ req[r].state = "Located"
                /\ req'[r].rec = Len(history) + 1
                /\ Len(history') = Len(history) + 1
                /\ SubSeq(history', 1, Len(history)) = history
                /\ RowOf(r, history'[Len(history')])]_vars

C10_Witness ==
    \E r \in Slots :
        /\ req[r].pc = "done" /\ req[r].resp.status = 500
        /\ req[r].exc.type = "OSError"
        /\ req[r].rec = 2 /\ Len(history) = 2
        /\ RowOf(r, history[2])

\* C9: under any interleaving of concurrent requests each request owns a
\* distinct scratch directory: the directories held at the same time differ,
\* the template and the returned path of a request lie in its own directory,
\* the returned entry is one of that directory, and a step changes no
\* directory but the one of the request that takes it.
C9_ScratchIsolation ==
    /\ [](/\ \A r1, r2 \in Slots :
                (r1 # r2 /\ Holding(r1) /\ Holding(r2)) =>
                    req[r1].tmp # req[r2].tmp
          /\ \A r \in Slots :
                /\ Holding(r) =>
                       /\ fs[req[r].tmp].exists
                       /\ Dirname(req[r].tpl) = req[r].tmp
                /\ req[r].path # NoPath =>
                       /\ Dirname(req[r].path) = req[r].tmp
                       /\ Holding(r) =>
                              Basename(req[r].path) \in fs[req[r].tmp].files)
    /\ [][/\ \A r \in Slots :
                (Holding(r) /\ req'[r] = req[r]) =>
                    fs'[req[r].tmp] = fs[req[r].tmp]
          /\ \A d \in DirNames :
                fs'[d] # fs[d] =>
                    \E r \in Slots :
                        /\ req'[r] # req[r]
                        /\ d \in {req[r].tmp, req'[r].tmp}]_vars

C9_Witness ==
    \E r1, r2 \in Slots :
        /\ r1 # r2
        /\ req[r1].state = "Located" /\ req[r1].pc = "send"
        /\ req[r2].state = "NotFound" /\ req[r2].pc = "finally"
        /\ fs[req[r1].tmp].files = { <<"d", "l", ".", "m", "p", "3">> }
        /\ fs[req[r2].tmp].files = { <<"d", "l", ".", "p", "a", "r", "t">> }
====
